---- MODULE Spec2Model ----
(***************************************************************************)
(* Model of esp::metadata::managers::ObjectAttributesManager               *)
(* (src/esp/metadata/managers/ObjectAttributesManager.cpp).                *)
(*                                                                         *)
(* A handle or path is a sequence of tokens, so that appending the         *)
(* canonical suffix, testing for it and joining a directory with an entry  *)
(* are real operations.  The empty string is the empty sequence.  A        *)
(* shared pointer is a sequence of length 0 (nullptr) or 1.                *)
(***************************************************************************)
EXTENDS Integers, Sequences, FiniteSets, TLC

VARIABLES
    prims,                          \* handles known to assetAttributesMgr_
    primDefaults,                   \* assetAttributesMgr_->getUndeletableObjectHandles()
    fs,                             \* existing files: path -> document
    dirs,                           \* existing directories
    objectLibrary_,                 \* handle -> registered copy of the template
    physicsSynthObjTmpltLibByID_,   \* id -> handle, primitive-rendered
    physicsFileObjTmpltLibByID_,    \* id -> handle, file-rendered
    undeletableObjectNames_,        \* protected handles
    crashed,                        \* the process died in the last call
    nOps,                           \* calls made on the manager so far
    nEnv,                           \* changes made to the oracles so far
    last                            \* the last call: arguments and outcome

vars == <<prims, primDefaults, fs, dirs, objectLibrary_,
          physicsSynthObjTmpltLibByID_, physicsFileObjTmpltLibByID_,
          undeletableObjectNames_, crashed, nOps, nEnv, last>>

oracleVars == <<prims, primDefaults, fs, dirs>>

registryVars == <<objectLibrary_, physicsSynthObjTmpltLibByID_,
                  physicsFileObjTmpltLibByID_, undeletableObjectNames_>>

----------------------------------------------------------------------------
(* Bounds of the model *)

MaxOps == 2        \* calls on the manager in one behaviour
MaxEnv == 1        \* oracle changes in one behaviour
MaxDefaults == 2   \* length of the list of built-in primitive handles

----------------------------------------------------------------------------
(* Strings *)

ID_UNDEFINED == -1

EXT == ".phys_properties.json"
EXTU == ".PHYS_PROPERTIES.JSON"
SEP == "/"

EmptyStr == <<>>

\* Cr::Utility::String::lowercase, token by token
lowercase(s) == [i \in DOMAIN s |-> IF s[i] = EXTU THEN EXT ELSE s[i]]

\* strHandle.find("phys_properties.json") != npos : the text occurs anywhere
findsJSONTypeExt(s) == \E i \in DOMAIN s : s[i] = EXT

\* Cr::Utility::String::endsWith(s, ".phys_properties.json"), case-sensitive
endsWithExt(s) == Len(s) > 0 /\ s[Len(s)] = EXT

\* io::changeExtension(handle, "phys_properties.json")
changeExtension(s) == s \o <<EXT>>

\* Cr::Utility::Directory::join(path, file)
join(path, file) == IF path = EmptyStr THEN file ELSE path \o <<SEP>> \o file

----------------------------------------------------------------------------
(* Oracles *)

isValidPrimitiveAttributes(h) == h \in prims

isValidFileName(h) == h \in DOMAIN fs

\* Cr::Utility::Directory::exists : true of files and of directories
DirectoryExists(p) == p \in DOMAIN fs \/ p \in dirs

DirectoryIsDirectory(p) == p \in dirs

----------------------------------------------------------------------------
(* Attribute templates *)

NullPtr == <<>>
Ptr(t) == <<t>>
Deref(p) == p[1]

\* ObjectAttributes::create(handle): a new template with the class defaults.
\* margin is in hundredths, scale in tenths.
ObjectAttributesCreate(h) ==
    [ handle |-> h, ID |-> 0,
      renderAssetHandle |-> EmptyStr, collisionAssetHandle |-> EmptyStr,
      renderAssetIsPrimitive |-> FALSE, collisionAssetIsPrimitive |-> FALSE,
      renderAssetType |-> "UNKNOWN", collisionAssetType |-> "UNKNOWN",
      isDirty |-> TRUE,
      margin |-> 4, scale |-> <<10, 10, 10>>, useMeshCollision |-> TRUE,
      orientUp |-> <<0, 0, 0>>, orientFront |-> <<0, 0, 0>>,
      mass |-> 10, COM |-> <<0, 0, 0>>, inertia |-> <<0, 0, 0>>,
      boundingBoxCollisions |-> FALSE, joinCollisionMeshes |-> TRUE,
      computeCOMFromShape |-> TRUE ]

\* the asset type chosen by setDefaultAssetNameBasedAttributes
defaultAssetType(meshHandle) ==
    IF isValidPrimitiveAttributes(meshHandle) THEN "PRIMITIVE" ELSE "UNKNOWN"

\* mutant: the collision asset handle is not set
initNewObjectInternal_RenderOnly(attributesHandle) ==
    LET t0 == ObjectAttributesCreate(attributesHandle)
        t1 == [t0 EXCEPT !.renderAssetHandle = attributesHandle]
    IN  [t1 EXCEPT !.renderAssetType = defaultAssetType(t1.renderAssetHandle),
                   !.collisionAssetType = defaultAssetType(t1.collisionAssetHandle),
                   !.orientUp = <<0, 1, 0>>,
                   !.orientFront = <<0, 0, -1>>]

initNewObjectInternal(attributesHandle) ==
    LET t0 == ObjectAttributesCreate(attributesHandle)
        t1 == [t0 EXCEPT !.renderAssetHandle = attributesHandle,
                         !.collisionAssetHandle = attributesHandle,
                         !.isDirty = TRUE]
        t2 == [t1 EXCEPT !.renderAssetType = defaultAssetType(t1.renderAssetHandle),
                         !.orientUp = <<0, 1, 0>>,
                         !.orientFront = <<0, 0, -1>>]
    IN  [t2 EXCEPT !.collisionAssetType = defaultAssetType(t2.collisionAssetHandle)]

----------------------------------------------------------------------------
(* The registry: m = [lib, synth, file, undel] *)

Registry == [ lib |-> objectLibrary_,
              synth |-> physicsSynthObjTmpltLibByID_,
              file |-> physicsFileObjTmpltLibByID_,
              undel |-> undeletableObjectNames_ ]

EmptyMap == [x \in {} |-> x]

\* std::map::emplace : no effect when the key is present
emplace(map, key, val) ==
    IF key \in DOMAIN map THEN map ELSE map @@ (key :> val)

\* the id an unregistered handle receives next
nextID(m) == Cardinality(DOMAIN m.lib)

\* AttributesManagerBase::addObjectToLibrary : a registered handle keeps its
\* id, a new handle receives the next one; the library stores a copy.
addObjectToLibrary(m, t, h) ==
    LET id == IF h \in DOMAIN m.lib THEN m.lib[h].ID ELSE nextID(m)
        t1 == [t EXCEPT !.handle = h, !.ID = id]
    IN  [ m |-> [m EXCEPT !.lib = [x \in DOMAIN m.lib \cup {h} |->
                                      IF x = h THEN t1 ELSE m.lib[x]]],
          id |-> id, t |-> t1 ]

\* mutant: the collision asset handle has to resolve as well
renderAssetResolves_AndCollision(t) ==
    /\ t.renderAssetHandle # EmptyStr
    /\ \/ isValidPrimitiveAttributes(t.renderAssetHandle)
       \/ isValidFileName(t.renderAssetHandle)
    /\ \/ isValidPrimitiveAttributes(t.collisionAssetHandle)
       \/ isValidFileName(t.collisionAssetHandle)

\* lines 212 and 226-250: the render asset handle is usable
renderAssetResolves(t) ==
    /\ t.renderAssetHandle # EmptyStr
    /\ \/ isValidPrimitiveAttributes(t.renderAssetHandle)
       \/ isValidFileName(t.renderAssetHandle)

\* lines 226-237: the render origin
classifyRenderAsset(t) ==
    [t EXCEPT !.renderAssetIsPrimitive =
                  isValidPrimitiveAttributes(t.renderAssetHandle)]

\* mutant: the fallback copies the handle and forgets the origin
classifyCollisionAsset_HandleOnly(t) ==
    IF isValidPrimitiveAttributes(t.collisionAssetHandle)
    THEN [t EXCEPT !.collisionAssetIsPrimitive = TRUE]
    ELSE IF isValidFileName(t.collisionAssetHandle)
    THEN [t EXCEPT !.collisionAssetIsPrimitive = FALSE]
    ELSE [t EXCEPT !.collisionAssetHandle = t.renderAssetHandle]

\* lines 252-275: the collision origin, with the fallback to the render asset
classifyCollisionAsset(t) ==
    IF isValidPrimitiveAttributes(t.collisionAssetHandle)
    THEN [t EXCEPT !.collisionAssetIsPrimitive = TRUE]
    ELSE IF isValidFileName(t.collisionAssetHandle)
    THEN [t EXCEPT !.collisionAssetIsPrimitive = FALSE]
    ELSE [t EXCEPT !.collisionAssetHandle = t.renderAssetHandle,
                   !.collisionAssetIsPrimitive = t.renderAssetIsPrimitive,
                   !.isDirty = TRUE]

\* lines 221-237 and 284: mapToUse->emplace(id, handle)
emplaceInMapToUse(m, renderIsPrimitive, id, h) ==
    IF renderIsPrimitive
    THEN [m EXCEPT !.synth = emplace(m.synth, id, h)]
    ELSE [m EXCEPT !.file = emplace(m.file, id, h)]

\* mutant: the template is committed before its render asset is checked
registerObjectFinalize_CommitFirst(m, objectTemplate, objectTemplateHandle) ==
    LET t1 == classifyRenderAsset(objectTemplate)
        t2 == classifyCollisionAsset(t1)
        t3 == [t2 EXCEPT !.isDirty = FALSE]
        a  == addObjectToLibrary(m, t3, objectTemplateHandle)
    IN  IF ~renderAssetResolves(objectTemplate)
        THEN [m |-> a.m, id |-> ID_UNDEFINED, t |-> objectTemplate]
        ELSE [ m |-> emplaceInMapToUse(a.m, t1.renderAssetIsPrimitive,
                                       a.id, objectTemplateHandle),
               id |-> a.id, t |-> a.t ]

\* mutant: the dirty flag is cleared before the render asset is checked
registerObjectFinalize_CleanFirst(m, objectTemplate, objectTemplateHandle) ==
    LET t0 == [objectTemplate EXCEPT !.isDirty = FALSE]
    IN  IF ~renderAssetResolves(t0)
        THEN [m |-> m, id |-> ID_UNDEFINED, t |-> t0]
        ELSE LET t2 == classifyCollisionAsset(classifyRenderAsset(t0))
                 a  == addObjectToLibrary(m, t2, objectTemplateHandle)
             IN  [ m |-> emplaceInMapToUse(a.m, t2.renderAssetIsPrimitive,
                                           a.id, objectTemplateHandle),
                   id |-> a.id, t |-> a.t ]

registerObjectFinalize(m, objectTemplate, objectTemplateHandle) ==
    IF ~renderAssetResolves(objectTemplate)
    THEN [m |-> m, id |-> ID_UNDEFINED, t |-> objectTemplate]
    ELSE LET t1 == classifyRenderAsset(objectTemplate)
             t2 == classifyCollisionAsset(t1)
             t3 == [t2 EXCEPT !.isDirty = FALSE]
             a  == addObjectToLibrary(m, t3, objectTemplateHandle)
         IN  [ m |-> emplaceInMapToUse(a.m, t1.renderAssetIsPrimitive,
                                       a.id, objectTemplateHandle),
               id |-> a.id, t |-> a.t ]

\* AttributesManagerBase::registerObject : the given handle, or the
\* template's own when none is given; no registration without a handle
registerObject(m, t, h) ==
    IF h # EmptyStr THEN registerObjectFinalize(m, t, h)
    ELSE IF t.handle = EmptyStr THEN [m |-> m, id |-> ID_UNDEFINED, t |-> t]
    ELSE registerObjectFinalize(m, t, t.handle)

\* AttributesManagerBase::postCreateRegister : result [m, p], p a pointer
postCreateRegister(m, t, registerTemplate) ==
    IF ~registerTemplate THEN [m |-> m, p |-> Ptr(t)]
    ELSE LET r == registerObject(m, t, EmptyStr)
         IN  [m |-> r.m, p |-> IF r.id = ID_UNDEFINED THEN NullPtr ELSE Ptr(r.t)]

----------------------------------------------------------------------------
(* Configuration documents.  An optional field is <<>> or <<value>>.       *)

NoField == <<>>

Document(render, collision, mass, com) ==
    [ valid |-> TRUE, render |-> render, collision |-> collision,
      mass |-> mass, COM |-> com, inertia |-> NoField,
      boundingBoxCollisions |-> NoField, joinCollisionMeshes |-> NoField ]

\* a file that does not parse as a document (a mesh, a truncated file)
NotJSON == [Document(NoField, NoField, NoField, NoField) EXCEPT !.valid = FALSE]

\* io::jsonIntoSetter : the setter runs only when the key is present
jsonIntoSetter(field, old) == IF field = NoField THEN old ELSE field[1]

\* AbstractObjectAttributesManager::createObjectAttributesFromJson
createObjectAttributesFromJson(templateName, doc) ==
    LET t == initNewObjectInternal(templateName)
    IN  [t EXCEPT !.renderAssetHandle = jsonIntoSetter(doc.render, @),
                  !.collisionAssetHandle = jsonIntoSetter(doc.collision, @)]

\* mutant: the flag follows the value of the centre of mass, not the
\* presence of the key
loadFromJSONDoc_ByValue(templateName, jsonConfig) ==
    LET t == createObjectAttributesFromJson(templateName, jsonConfig)
        com == jsonIntoSetter(jsonConfig.COM, t.COM)
    IN  [t EXCEPT !.mass = jsonIntoSetter(jsonConfig.mass, @),
                  !.boundingBoxCollisions =
                      jsonIntoSetter(jsonConfig.boundingBoxCollisions, @),
                  !.joinCollisionMeshes =
                      jsonIntoSetter(jsonConfig.joinCollisionMeshes, @),
                  !.inertia = jsonIntoSetter(jsonConfig.inertia, @),
                  !.COM = com,
                  !.computeCOMFromShape = (com = <<0, 0, 0>>)]

loadFromJSONDoc(templateName, jsonConfig) ==
    LET t == createObjectAttributesFromJson(templateName, jsonConfig)
        comIsSet == jsonConfig.COM # NoField
    IN  [t EXCEPT !.mass = jsonIntoSetter(jsonConfig.mass, @),
                  !.boundingBoxCollisions =
                      jsonIntoSetter(jsonConfig.boundingBoxCollisions, @),
                  !.joinCollisionMeshes =
                      jsonIntoSetter(jsonConfig.joinCollisionMeshes, @),
                  !.inertia = jsonIntoSetter(jsonConfig.inertia, @),
                  !.COM = jsonIntoSetter(jsonConfig.COM, @),
                  !.computeCOMFromShape = ~comIsSet]

\* AttributesManagerBase::createObjectFromFile : null when the file cannot
\* be read as a document
createObjectFromFile(m, filename, registerTemplate) ==
    IF filename \notin DOMAIN fs \/ ~fs[filename].valid
    THEN [m |-> m, p |-> NullPtr]
    ELSE postCreateRegister(m, loadFromJSONDoc(filename, fs[filename]),
                            registerTemplate)

\* AttributesManagerBase::createDefaultObject
createDefaultObject(m, templateName, registerTemplate) ==
    postCreateRegister(m, initNewObjectInternal(templateName), registerTemplate)

\* mutant: the primitive-based template is always registered
createPrimBasedAttributesTemplate_AlwaysRegisters(m, primAttrTemplateHandle, registerTemplate) ==
    IF ~isValidPrimitiveAttributes(primAttrTemplateHandle)
    THEN [m |-> m, p |-> NullPtr]
    ELSE LET t == initNewObjectInternal(primAttrTemplateHandle)
             primObjectAttributes ==
                 [t EXCEPT !.margin = 0, !.scale = <<1, 1, 1>>,
                           !.renderAssetType = "PRIMITIVE",
                           !.collisionAssetType = "PRIMITIVE",
                           !.useMeshCollision = FALSE]
         IN  postCreateRegister(m, primObjectAttributes, TRUE)

\* mutant: the defaults of a primitive are left as initNewObjectInternal
\* chose them, and an unknown primitive is built all the same
createPrimBasedAttributesTemplate_Unchecked(m, primAttrTemplateHandle, registerTemplate) ==
    postCreateRegister(m, initNewObjectInternal(primAttrTemplateHandle),
                       registerTemplate)

createPrimBasedAttributesTemplate(m, primAttrTemplateHandle, registerTemplate) ==
    IF ~isValidPrimitiveAttributes(primAttrTemplateHandle)
    THEN [m |-> m, p |-> NullPtr]
    ELSE LET t == initNewObjectInternal(primAttrTemplateHandle)
             primObjectAttributes ==
                 [t EXCEPT !.margin = 0, !.scale = <<1, 1, 1>>,
                           !.renderAssetType = "PRIMITIVE",
                           !.collisionAssetType = "PRIMITIVE",
                           !.useMeshCollision = FALSE]
         IN  postCreateRegister(m, primObjectAttributes, registerTemplate)

\* lines 37-43: the configuration file that belongs to a handle
jsonAttrFileName(attributesTemplateHandle) ==
    IF findsJSONTypeExt(lowercase(attributesTemplateHandle))
    THEN attributesTemplateHandle
    ELSE changeExtension(attributesTemplateHandle)

\* mutant: the configuration file is looked for before the primitive
createObjectPath_FileFirst(attributesTemplateHandle) ==
    IF isValidFileName(jsonAttrFileName(attributesTemplateHandle))
    THEN "JSON File"
    ELSE IF isValidPrimitiveAttributes(attributesTemplateHandle)
    THEN "Primitive Asset"
    ELSE IF isValidFileName(attributesTemplateHandle) THEN "File"
    ELSE "New default"

\* lines 30-63: which of the three builders createObject uses
createObjectPath(attributesTemplateHandle) ==
    IF isValidPrimitiveAttributes(attributesTemplateHandle) THEN "Primitive Asset"
    ELSE IF isValidFileName(jsonAttrFileName(attributesTemplateHandle))
    THEN "JSON File"
    ELSE IF isValidFileName(attributesTemplateHandle) THEN "File"
    ELSE "New default"

\* result [m, p, msg]
createObject(m, attributesTemplateHandle, registerTemplate) ==
    LET path == createObjectPath(attributesTemplateHandle)
        r == CASE path = "Primitive Asset" ->
                    createPrimBasedAttributesTemplate(m, attributesTemplateHandle,
                                                      registerTemplate)
               [] path = "JSON File" ->
                    createObjectFromFile(m, jsonAttrFileName(attributesTemplateHandle),
                                         registerTemplate)
               [] OTHER ->
                    createDefaultObject(m, attributesTemplateHandle,
                                        registerTemplate)
    IN  [m |-> r.m, p |-> r.p, msg |-> path]

----------------------------------------------------------------------------
(* Dereferencing a null shared pointer is undefined behaviour: the process *)
(* dies, or the read yields some value.  ub = [crash, handle, id].         *)

GarbageHandles == {<<"?">>}
GarbageIDs == {ID_UNDEFINED, 0}

UBOutcomes ==
    {[crash |-> TRUE, handle |-> EmptyStr, id |-> ID_UNDEFINED]}
    \cup {[crash |-> FALSE, handle |-> h, id |-> i] :
              h \in GarbageHandles, i \in GarbageIDs}

\* tmplt->getHandle()
getHandle(p, ub) == IF p = NullPtr THEN ub.handle ELSE Deref(p).handle

\* tmplt->getID()
getID(p, ub) == IF p = NullPtr THEN ub.id ELSE Deref(p).ID

----------------------------------------------------------------------------
(* Seeding the protected primitives *)

\* lines 115-120, from element i of lib on: result [m, ps, crashed], ps the
\* pointers createPrimBasedAttributesTemplate returned.  (r \in {e} binds r
\* to the value of e, which is then computed once.)
RECURSIVE seedFrom(_, _, _, _, _)
seedFrom(m, lib, i, ps, ub) ==
    IF i > Len(lib) THEN [m |-> m, ps |-> ps, crashed |-> FALSE]
    ELSE CHOOSE out \in
             { IF r.p = NullPtr /\ ub.crash
               THEN [m |-> r.m, ps |-> Append(ps, r.p), crashed |-> TRUE]
               ELSE seedFrom([r.m EXCEPT !.undel = @ \cup {getHandle(r.p, ub)}],
                             lib, i + 1, Append(ps, r.p), ub) :
               r \in {createPrimBasedAttributesTemplate(m, lib[i], TRUE)} } : TRUE

createDefaultPrimBasedAttributesTemplates(m, ub) ==
    seedFrom([m EXCEPT !.undel = {}], primDefaults, 1, <<>>, ub)

----------------------------------------------------------------------------
(* Batch loading *)

\* lines 293-305, from file i on: result [m, ids, ps, crashed]
RECURSIVE loadFrom(_, _, _, _, _, _, _)
loadFrom(m, tmpltFilenames, i, resIDs, ps, saveAsDefaults, ub) ==
    IF i > Len(tmpltFilenames)
    THEN [m |-> m, ids |-> resIDs, ps |-> ps, crashed |-> FALSE]
    ELSE CHOOSE out \in
             { IF r.p = NullPtr /\ ub.crash
               THEN [m |-> r.m, ids |-> resIDs, ps |-> Append(ps, r.p),
                     crashed |-> TRUE]
               ELSE loadFrom(IF saveAsDefaults
                             THEN [r.m EXCEPT !.undel = @ \cup {getHandle(r.p, ub)}]
                             ELSE r.m,
                             tmpltFilenames, i + 1,
                             [resIDs EXCEPT ![i] = getID(r.p, ub)],
                             Append(ps, r.p), saveAsDefaults, ub) :
               r \in {createObjectFromFile(m, tmpltFilenames[i], TRUE)} } : TRUE

loadAllFileBasedTemplates(m, tmpltFilenames, saveAsDefaults, ub) ==
    loadFrom(m, tmpltFilenames, 1,
             [i \in 1..Len(tmpltFilenames) |-> ID_UNDEFINED], <<>>,
             saveAsDefaults, ub)

\* the order of std::string comparison on the tokens used
AsciiOrder == <<EXTU, EXT, SEP, "?", "a", "b", "c", "d", "m">>

rank(tok) == CHOOSE i \in DOMAIN AsciiOrder : AsciiOrder[i] = tok

RECURSIVE less(_, _)
less(x, y) ==
    IF y = <<>> THEN FALSE
    ELSE IF x = <<>> THEN TRUE
    ELSE IF Head(x) # Head(y) THEN rank(Head(x)) < rank(Head(y))
    ELSE less(Tail(x), Tail(y))

RECURSIVE sortAscending(_)
sortAscending(S) ==
    IF S = {} THEN <<>>
    ELSE LET lo == CHOOSE x \in S : \A y \in S \ {x} : less(x, y)
         IN  <<lo>> \o sortAscending(S \ {lo})

\* the names of the entries of a directory
entries(path) ==
    LET n == Len(path) + 1
    IN  { SubSeq(p, n + 1, Len(p)) :
            p \in { q \in DOMAIN fs \cup dirs :
                      /\ Len(q) > n
                      /\ SubSeq(q, 1, n) = path \o <<SEP>>
                      /\ \A i \in (n + 1)..Len(q) : q[i] # SEP } }

\* Directory::list(path, Directory::Flag::SortAscending)
DirectoryList(path) == sortAscending(entries(path))

\* line 317-321: the single-file candidate
objPhysPropertiesFilename(path) ==
    IF endsWithExt(path) THEN path ELSE path \o <<EXT>>

\* mutant: every entry of the directory is kept
RECURSIVE selectExt_All(_, _)
selectExt_All(path, files) ==
    IF files = <<>> THEN <<>>
    ELSE <<join(path, Head(files))>> \o selectExt_All(path, Tail(files))

\* lines 337-343: the entries whose absolute path ends with the suffix
RECURSIVE selectExt(_, _)
selectExt(path, files) ==
    IF files = <<>> THEN <<>>
    ELSE LET absoluteSubfilePath == join(path, Head(files))
         IN  (IF endsWithExt(absoluteSubfilePath)
              THEN <<absoluteSubfilePath>> ELSE <<>>)
             \o selectExt(path, Tail(files))

\* lines 331-344: the paths handed to loadAllFileBasedTemplates
configPaths(path) ==
    (IF DirectoryExists(objPhysPropertiesFilename(path))
     THEN <<objPhysPropertiesFilename(path)>> ELSE <<>>)
    \o (IF DirectoryIsDirectory(path)
        THEN selectExt(path, DirectoryList(path)) ELSE <<>>)

\* result [m, ids, ps, paths, crashed]
loadObjectConfigs(m, path, saveAsDefaults, ub) ==
    IF ~DirectoryIsDirectory(path)
       /\ ~DirectoryExists(objPhysPropertiesFilename(path))
    THEN [m |-> m, ids |-> <<>>, ps |-> <<>>, paths |-> <<>>, crashed |-> FALSE]
    ELSE LET r == loadAllFileBasedTemplates(m, configPaths(path),
                                            saveAsDefaults, ub)
         IN  [m |-> r.m, ids |-> r.ids, ps |-> r.ps,
              paths |-> configPaths(path), crashed |-> r.crashed]

----------------------------------------------------------------------------
(* Inputs *)

A == <<"a">>
B == <<"b">>
D == <<"d">>
M == <<"m">>

PrimUniverse == {A, B}

\* handles given to createObject
HandleInputs == {A, B, <<"a", EXT>>, <<"a", EXTU>>}

\* handles of the templates given to registerObject
RegHandles == {A, B}

\* asset handles a caller sets on a template before registering it
AssetHandles == {EmptyStr, A, B, M}
CollisionHandles == {EmptyStr, A, M}

\* documents a configuration file may hold
ConfigDocs ==
    { NotJSON,
      Document(NoField, NoField, NoField, NoField),
      Document(<<B>>, NoField, <<25>>, <<<<0, 0, 0>>>>),
      Document(<<M>>, <<B>>, NoField, NoField) }

OptFile(p, docs) == {EmptyMap} \cup {p :> d : d \in docs}

----------------------------------------------------------------------------
(* The last call *)

NoCall ==
    [ op |-> "none", handle |-> EmptyStr, flag |-> FALSE, tin |-> NullPtr,
      p |-> NullPtr, id |-> ID_UNDEFINED, ids |-> <<>>, ps |-> <<>>,
      paths |-> <<>>, msg |-> "", returned |-> TRUE,
      before |-> [lib |-> EmptyMap, synth |-> EmptyMap, file |-> EmptyMap,
                  undel |-> {}] ]

SetRegistry(m) ==
    /\ objectLibrary_' = m.lib
    /\ physicsSynthObjTmpltLibByID_' = m.synth
    /\ physicsFileObjTmpltLibByID_' = m.file
    /\ undeletableObjectNames_' = m.undel

Call == ~crashed /\ nOps < MaxOps /\ nOps' = nOps + 1

----------------------------------------------------------------------------
(* Actions *)

\* a caller builds a template, sets its asset handles and registers it
RegisterObject ==
    /\ Call
    /\ \E h \in RegHandles, r \in AssetHandles, c \in CollisionHandles :
       \E t \in {[initNewObjectInternal(h) EXCEPT !.renderAssetHandle = r,
                                                  !.collisionAssetHandle = c]} :
       \E res \in {registerObject(Registry, t, EmptyStr)} :
             /\ SetRegistry(res.m)
             /\ last' = [NoCall EXCEPT !.op = "registerObject", !.handle = h,
                                       !.tin = Ptr(t), !.p = Ptr(res.t),
                                       !.id = res.id, !.before = Registry]
    /\ UNCHANGED <<oracleVars, crashed, nEnv>>

CreateObject ==
    /\ Call
    /\ \E h \in HandleInputs, registerTemplate \in BOOLEAN :
       \E res \in {createObject(Registry, h, registerTemplate)} :
             /\ SetRegistry(res.m)
             /\ last' = [NoCall EXCEPT !.op = "createObject", !.handle = h,
                                       !.flag = registerTemplate,
                                       !.p = res.p, !.msg = res.msg,
                                       !.before = Registry]
    /\ UNCHANGED <<oracleVars, crashed, nEnv>>

CreatePrimBasedAttributesTemplate ==
    /\ Call
    /\ \E h \in RegHandles, registerTemplate \in BOOLEAN :
       \E res \in {createPrimBasedAttributesTemplate(Registry, h, registerTemplate)} :
             /\ SetRegistry(res.m)
             /\ last' = [NoCall EXCEPT !.op = "createPrimBasedAttributesTemplate",
                                       !.handle = h,
                                       !.flag = registerTemplate,
                                       !.p = res.p, !.before = Registry]
    /\ UNCHANGED <<oracleVars, crashed, nEnv>>

CreateDefaultPrimBasedAttributesTemplates ==
    /\ Call
    /\ \E ub \in UBOutcomes :
       \E res \in {createDefaultPrimBasedAttributesTemplates(Registry, ub)} :
             /\ SetRegistry(res.m)
             /\ crashed' = res.crashed
             /\ last' = [NoCall EXCEPT !.op = "createDefaultPrimBasedAttributesTemplates",
                                       !.ps = res.ps,
                                       !.returned = ~res.crashed,
                                       !.before = Registry]
    /\ UNCHANGED <<oracleVars, nEnv>>

LoadObjectConfigs ==
    /\ Call
    /\ \E path \in {D, <<"d", EXT>>, A}, saveAsDefaults \in BOOLEAN,
          ub \in UBOutcomes :
       \E res \in {loadObjectConfigs(Registry, path, saveAsDefaults, ub)} :
             /\ SetRegistry(res.m)
             /\ crashed' = res.crashed
             /\ last' = [NoCall EXCEPT !.op = "loadObjectConfigs",
                                       !.handle = path,
                                       !.flag = saveAsDefaults,
                                       !.ids = IF res.crashed THEN <<>> ELSE res.ids,
                                       !.ps = res.ps, !.paths = res.paths,
                                       !.returned = ~res.crashed,
                                       !.before = Registry]
    /\ UNCHANGED <<oracleVars, nEnv>>

\* the environment: primitive attributes are added or removed
ChangePrimitives ==
    /\ ~crashed /\ nEnv < MaxEnv /\ nEnv' = nEnv + 1
    /\ \E h \in PrimUniverse :
         prims' = IF h \in prims THEN prims \ {h} ELSE prims \cup {h}
    /\ last' = [NoCall EXCEPT !.op = "environment"]
    /\ UNCHANGED <<primDefaults, fs, dirs, registryVars, crashed, nOps>>

\* the environment: a file is written or removed
ChangeFiles ==
    /\ ~crashed /\ nEnv < MaxEnv /\ nEnv' = nEnv + 1
    /\ \E h \in {A} :
         fs' = IF h \in DOMAIN fs
               THEN [x \in DOMAIN fs \ {h} |-> fs[x]]
               ELSE fs @@ (h :> NotJSON)
    /\ last' = [NoCall EXCEPT !.op = "environment"]
    /\ UNCHANGED <<prims, primDefaults, dirs, registryVars, crashed, nOps>>

----------------------------------------------------------------------------
(* Specifications *)

InitRegistry ==
    /\ objectLibrary_ = EmptyMap
    /\ physicsSynthObjTmpltLibByID_ = EmptyMap
    /\ physicsFileObjTmpltLibByID_ = EmptyMap
    /\ undeletableObjectNames_ = {}
    /\ crashed = FALSE
    /\ nOps = 0
    /\ nEnv = 0
    /\ last = NoCall

\* registering and creating single templates
Init ==
    /\ InitRegistry
    /\ prims \in SUBSET PrimUniverse
    /\ primDefaults = <<>>
    /\ dirs = {}
    /\ \E f1 \in OptFile(A, {NotJSON}), f2 \in OptFile(<<"a", EXT>>, ConfigDocs) :
         fs = f1 @@ f2

Next ==
    \/ RegisterObject
    \/ CreateObject
    \/ CreatePrimBasedAttributesTemplate
    \/ ChangePrimitives
    \/ ChangeFiles

Spec == Init /\ [][Next]_vars

----------------------------------------------------------------------------
(* Claims about registerObjectFinalize, checked under Spec *)

Registered == last.op = "registerObject"
RegisterFailed == Registered /\ last.id = ID_UNDEFINED
RegisterSucceeded == Registered /\ last.id # ID_UNDEFINED

\* a handle that names an existing primitive or an existing file
Resolves(h) == h \in prims \/ h \in DOMAIN fs

\* C1: registerObjectFinalize returns ID_UNDEFINED if and only if the
\* template's render asset handle is empty or names neither an existing
\* primitive nor an existing file, whatever the collision asset handle is.
C1_FailsIffRenderUnresolved ==
    Registered =>
        LET r == Deref(last.tin).renderAssetHandle
        IN  (last.id = ID_UNDEFINED) <=> (r = EmptyStr \/ ~Resolves(r))

\* a registration that succeeded although the collision handle resolves to
\* nothing
C1_Witness ==
    /\ RegisterSucceeded
    /\ Deref(last.tin).collisionAssetHandle = M
    /\ ~Resolves(M)

\* C2: after a successful registration, an unresolved collision handle has
\* been replaced by the render handle and the collision origin equals the
\* render origin; a resolved collision handle is kept and its origin is its
\* own classification.
C2_CollisionFallback ==
    RegisterSucceeded =>
        LET c == Deref(last.tin).collisionAssetHandle
            r == Deref(last.tin).renderAssetHandle
            t == Deref(last.p)
        IN  /\ t.renderAssetHandle = r
            /\ t.renderAssetIsPrimitive = (r \in prims)
            /\ IF Resolves(c)
               THEN /\ t.collisionAssetHandle = c
                    /\ t.collisionAssetIsPrimitive = (c \in prims)
               ELSE /\ t.collisionAssetHandle = r
                    /\ t.collisionAssetIsPrimitive = (r \in prims)

\* the fallback taken for a primitive render asset
C2_Witness ==
    /\ RegisterSucceeded
    /\ ~Resolves(Deref(last.tin).collisionAssetHandle)
    /\ Deref(last.tin).renderAssetHandle \in prims
    /\ Deref(last.p).collisionAssetIsPrimitive

\* C3: a failed registration leaves the primary map, both secondary maps
\* and the protected set as they were, and consumes no id: a successful
\* registration of a new handle right after it receives the id that was
\* next before the failed call.
C3_FailureChangesNothing ==
    [][ /\ (last'.op = "registerObject" /\ last'.id = ID_UNDEFINED)
            => UNCHANGED registryVars
        /\ (/\ RegisterFailed
            /\ last'.op = "registerObject" /\ last'.id # ID_UNDEFINED
            /\ last'.handle \notin DOMAIN objectLibrary_)
            => last'.id = Cardinality(DOMAIN last.before.lib) ]_vars

\* a failed registration on a registry that already holds a template
C3_Witness ==
    /\ RegisterFailed
    /\ objectLibrary_ # EmptyMap
    /\ Registry = last.before

\* C4: every registered id is a key of exactly one secondary map, the one
\* of the template's current render origin, and maps to the template's
\* handle.
C4_OneSecondaryMap ==
    \A h \in DOMAIN objectLibrary_ :
        LET t == objectLibrary_[h]
        IN  IF t.renderAssetIsPrimitive
            THEN /\ t.ID \in DOMAIN physicsSynthObjTmpltLibByID_
                 /\ physicsSynthObjTmpltLibByID_[t.ID] = h
                 /\ t.ID \notin DOMAIN physicsFileObjTmpltLibByID_
            ELSE /\ t.ID \in DOMAIN physicsFileObjTmpltLibByID_
                 /\ physicsFileObjTmpltLibByID_[t.ID] = h
                 /\ t.ID \notin DOMAIN physicsSynthObjTmpltLibByID_

----------------------------------------------------------------------------
(* Claims about createObject, checked under Spec *)

Created == last.op = "createObject"

\* the configuration file of a handle, stated on the tokens
Canonical(h) ==
    IF \E i \in DOMAIN h : h[i] \in {EXT, EXTU} THEN h ELSE h \o <<EXT>>

\* C5: createObject builds a primitive-based template for an existing
\* primitive handle, else a file-based template from the canonical
\* configuration file when that exists, else a default template named by
\* the handle, whether or not the handle itself is a file.
C5_Precedence ==
    Created =>
        LET h == last.handle
        IN  IF h \in prims
            THEN /\ last.msg = "Primitive Asset"
                 /\ last.p # NullPtr
                 /\ Deref(last.p).handle = h
                 /\ Deref(last.p).margin = 0
                 /\ Deref(last.p).renderAssetType = "PRIMITIVE"
            ELSE IF Canonical(h) \in DOMAIN fs
            THEN /\ last.msg = "JSON File"
                 /\ last.p # NullPtr => Deref(last.p).handle = Canonical(h)
            ELSE /\ last.msg = IF h \in DOMAIN fs THEN "File" ELSE "New default"
                 /\ last.p # NullPtr =>
                        /\ Deref(last.p).handle = h
                        /\ Deref(last.p).renderAssetHandle = h

\* a primitive handle whose configuration file exists as well
C5_Witness ==
    /\ Created
    /\ last.handle \in prims
    /\ Canonical(last.handle) \in DOMAIN fs
    /\ last.msg = "Primitive Asset"

\* a handle that is no primitive, no file, and has no configuration file
Unresolved(h) ==
    /\ h \notin prims
    /\ h \notin DOMAIN fs
    /\ Canonical(h) \notin DOMAIN fs

\* C6 as stated: createObject on an unresolved handle H yields a default
\* template whose render and collision asset handles both equal H, for
\* either value of registerTemplate.
C6_DefaultTemplate ==
    (Created /\ Unresolved(last.handle)) =>
        /\ last.p # NullPtr
        /\ Deref(last.p).renderAssetHandle = last.handle
        /\ Deref(last.p).collisionAssetHandle = last.handle

\* C6 amended: with registerTemplate = false the default template is
\* returned with both asset handles equal to H; with registerTemplate =
\* true the registration fails on the unresolved render asset, the result
\* is null and the registry is unchanged.
C6_DefaultTemplateUnregistered ==
    (Created /\ Unresolved(last.handle)) =>
        IF last.flag
        THEN last.p = NullPtr /\ Registry = last.before
        ELSE /\ last.p # NullPtr
             /\ Deref(last.p).handle = last.handle
             /\ Deref(last.p).renderAssetHandle = last.handle
             /\ Deref(last.p).collisionAssetHandle = last.handle
             /\ Registry = last.before

C6_Witness ==
    /\ Created
    /\ Unresolved(last.handle)
    /\ ~last.flag
    /\ last.p # NullPtr
    /\ Deref(last.p).collisionAssetHandle = last.handle

----------------------------------------------------------------------------
(* Batch loading from a directory *)

\* documents of the files found in a directory
EmptyDoc == Document(NoField, NoField, NoField, NoField)

InitBatch ==
    /\ InitRegistry
    /\ prims \in SUBSET {B}
    /\ primDefaults = <<>>
    /\ dirs \in SUBSET {D, <<"d", EXT>>}
    /\ \E f1 \in IF <<"d", EXT>> \in dirs THEN {EmptyMap}
                  ELSE OptFile(<<"d", EXT>>, {EmptyDoc}),
          f2 \in OptFile(<<"d", SEP, "a", EXT>>, ConfigDocs),
          f3 \in OptFile(<<"d", SEP, "b", EXT>>, {EmptyDoc}),
          f4 \in OptFile(<<"d", SEP, "c">>, {NotJSON}) :
         fs = f1 @@ f2 @@ f3 @@ f4

NextBatch == LoadObjectConfigs

SpecBatch == InitBatch /\ [][NextBatch]_vars

Loaded == last.op = "loadObjectConfigs"

\* the entries of directory dir whose path ends with the suffix
ConfigsUnder(dir) ==
    { p \in DOMAIN fs \cup dirs :
        /\ Len(p) > Len(dir) + 1
        /\ SubSeq(p, 1, Len(dir)) = dir
        /\ p[Len(dir) + 1] = SEP
        /\ \A i \in (Len(dir) + 2)..Len(p) : p[i] # SEP
        /\ p[Len(p)] = EXT }

\* the single-file candidate of a path
Candidate(path) ==
    IF path # <<>> /\ path[Len(path)] = EXT THEN path ELSE path \o <<EXT>>

\* seq lists the paths of set S once each, in ascending order
AscendingListOf(seq, S) ==
    /\ {seq[i] : i \in DOMAIN seq} = S
    /\ \A i, j \in DOMAIN seq : i < j => (seq[i] # seq[j] /\ less(seq[i], seq[j]))

\* every file of the last batch was built and registered
AllBuilt == \A i \in DOMAIN last.ps : last.ps[i] # NullPtr

\* result i is the id under which path i is registered
IdOfPath(i) ==
    /\ last.paths[i] \in DOMAIN objectLibrary_
    /\ last.ids[i] = objectLibrary_[last.paths[i]].ID

C8_FailureKeepsSentinel ==
    Loaded =>
        /\ last.returned
        /\ Len(last.ids) = Len(last.paths)
        /\ Len(last.ps) = Len(last.paths)
        /\ \A i \in DOMAIN last.ids :
               IF last.ps[i] = NullPtr
               THEN last.ids[i] = ID_UNDEFINED
               ELSE IdOfPath(i)

----------------------------------------------------------------------------
(* Seeding the protected primitives *)

RECURSIVE SeqsUpTo(_, _)
SeqsUpTo(S, n) ==
    IF n = 0 THEN {<<>>}
    ELSE LET shorter == SeqsUpTo(S, n - 1)
         IN  shorter \cup {Append(q, x) : q \in shorter, x \in S}

InitSeed ==
    /\ InitRegistry
    /\ prims \in SUBSET PrimUniverse
    /\ primDefaults \in SeqsUpTo(PrimUniverse, MaxDefaults)
    /\ dirs = {D}
    /\ fs \in OptFile(<<"d", SEP, "a", EXT>>, {EmptyDoc})

NextSeed == CreateDefaultPrimBasedAttributesTemplates \/ LoadObjectConfigs

SpecSeed == InitSeed /\ [][NextSeed]_vars

Seeded == last.op = "createDefaultPrimBasedAttributesTemplates"

Listed == {primDefaults[i] : i \in DOMAIN primDefaults}

\* C9: after seeding completes, the protected set is exactly the handles of
\* the templates built from the list: each is protected and registered, and
\* a handle protected before and not in the list is protected no more.
C9_ProtectedIsList ==
    (Seeded /\ last.returned) =>
        /\ undeletableObjectNames_ =
               {primDefaults[i] : i \in {j \in DOMAIN last.ps : last.ps[j] # NullPtr}}
        /\ undeletableObjectNames_ \subseteq DOMAIN objectLibrary_
        /\ \A h \in last.before.undel \ Listed : h \notin undeletableObjectNames_

\* C10: a listed handle without a primitive definition yields a null result
\* for that handle only; the other listed handles are built, registered and
\* protected, and the call returns.
C10_SeedSurvivesFailure ==
    Seeded =>
        /\ last.returned
        /\ Len(last.ps) = Len(primDefaults)
        /\ \A i \in DOMAIN primDefaults :
               IF primDefaults[i] \in prims
               THEN /\ last.ps[i] # NullPtr
                    /\ primDefaults[i] \in undeletableObjectNames_
                    /\ primDefaults[i] \in DOMAIN objectLibrary_
               ELSE last.ps[i] = NullPtr

----------------------------------------------------------------------------
(* Claims about building templates, checked under Spec *)

\* C11: createObject with registerTemplate = false commits nothing, on
\* every construction path: the primary map, both secondary maps, the
\* protected set and the next id are as before the call, and the built
\* template is returned.
C11_UnregisteredCreateChangesNothing ==
    (Created /\ ~last.flag) =>
        /\ Registry = last.before
        /\ nextID(Registry) = nextID(last.before)
        /\ (last.p = NullPtr) <=>
               (/\ last.msg = "JSON File"
                /\ ~fs[Canonical(last.handle)].valid)

\* a primitive-based template built without registration while the
\* registry holds a template
C11_Witness ==
    /\ Created /\ ~last.flag
    /\ last.msg = "Primitive Asset"
    /\ last.p # NullPtr
    /\ objectLibrary_ # EmptyMap

PrimBuilt == last.op = "createPrimBasedAttributesTemplate"

\* the settings of a primitive-based template
PrimitiveDefaults(t) ==
    /\ t.margin = 0
    /\ t.scale = <<1, 1, 1>>
    /\ t.renderAssetType = "PRIMITIVE"
    /\ t.collisionAssetType = "PRIMITIVE"
    /\ t.useMeshCollision = FALSE

\* C12: for an existing primitive handle createObject yields margin 0,
\* scale 0.1 on each axis, render and collision asset type Primitive and
\* mesh collision disabled; createPrimBasedAttributesTemplate returns null
\* exactly when the handle is no existing primitive, and then builds and
\* registers nothing.
C12_PrimitiveTemplate ==
    /\ (Created /\ last.handle \in prims) =>
           (last.p # NullPtr /\ PrimitiveDefaults(Deref(last.p)))
    /\ PrimBuilt =>
           /\ (last.p = NullPtr) <=> (last.handle \notin prims)
           /\ last.p = NullPtr => Registry = last.before
           /\ last.p # NullPtr =>
                  /\ PrimitiveDefaults(Deref(last.p))
                  /\ Deref(last.p).handle = last.handle

\* createPrimBasedAttributesTemplate refused a handle that is no primitive
C12_Witness ==
    /\ PrimBuilt
    /\ last.handle \notin prims
    /\ last.p = NullPtr

----------------------------------------------------------------------------
(* Populating a template from a configuration document *)

\* the documents tried: every key present or absent
JSONDocs ==
    [ valid : {TRUE},
      render : {NoField, <<B>>},
      collision : {NoField, <<A>>},
      mass : {NoField, <<25>>},
      COM : {NoField, <<<<0, 0, 0>>>>, <<<<1, 2, 3>>>>},
      inertia : {NoField, <<<<1, 1, 1>>>>},
      boundingBoxCollisions : {NoField, <<TRUE>>, <<FALSE>>},
      joinCollisionMeshes : {NoField, <<FALSE>>} ]

LoadFromJSONDoc ==
    /\ Call
    /\ \E name \in DOMAIN fs :
         /\ fs[name].valid
         /\ last' = [NoCall EXCEPT !.op = "loadFromJSONDoc", !.handle = name,
                                   !.p = Ptr(loadFromJSONDoc(name, fs[name])),
                                   !.before = Registry]
    /\ UNCHANGED <<oracleVars, registryVars, crashed, nEnv>>

InitJSON ==
    /\ InitRegistry
    /\ prims = {}
    /\ primDefaults = <<>>
    /\ dirs = {}
    /\ fs \in {<<"a", EXT>> :> d : d \in JSONDocs}

NextJSON == LoadFromJSONDoc

SpecJSON == InitJSON /\ [][NextJSON]_vars

Parsed == last.op = "loadFromJSONDoc"

\* field f of the template is the document's value when the key is
\* present and the value of a new template otherwise
KeptOrSet(f) ==
    LET doc == fs[last.handle]
    IN  Deref(last.p)[f] =
            IF doc[f] = NoField
            THEN ObjectAttributesCreate(last.handle)[f]
            ELSE doc[f][1]

\* C13: computeCOMFromShape is false exactly when the key COM is present,
\* whatever its value; with COM absent the centre of mass keeps its
\* default, and mass, bounding-box collision, join collision meshes and
\* inertia keep their prior values when their keys are absent.
C13_COMPresenceDrivesFlag ==
    Parsed =>
        /\ Deref(last.p).computeCOMFromShape = (fs[last.handle].COM = NoField)
        /\ KeptOrSet("COM")
        /\ KeptOrSet("mass")
        /\ KeptOrSet("boundingBoxCollisions")
        /\ KeptOrSet("joinCollisionMeshes")
        /\ KeptOrSet("inertia")

\* a document whose COM is the default value: the flag is cleared all the
\* same, and the absent mass is the default
C13_Witness ==
    /\ Parsed
    /\ fs[last.handle].COM = <<<<0, 0, 0>>>>
    /\ fs[last.handle].mass = NoField
    /\ ~Deref(last.p).computeCOMFromShape
    /\ Deref(last.p).mass = 10

----------------------------------------------------------------------------
(* The paths of a batch *)

\* C14: the batch has one entry per discovered path, in discovery order and
\* without deduplication: the canonical candidate first, only when it
\* exists as a file and not when it exists only as a directory, and then,
\* when the path is a directory, one entry per entry of the directory
\* ending with the suffix; a call that returns yields one result per path.
C14_CandidateOnlyAsFile ==
    Loaded =>
        LET c == Candidate(last.handle)
            k == IF c \in DOMAIN fs THEN 1 ELSE 0
            under == IF last.handle \in dirs
                     THEN ConfigsUnder(last.handle) ELSE {}
        IN  /\ Len(last.paths) = k + Cardinality(under)
            /\ k = 1 => last.paths[1] = c
            /\ AscendingListOf(SubSeq(last.paths, k + 1, Len(last.paths)), under)
            /\ last.returned => Len(last.ids) = Len(last.paths)

----------------------------------------------------------------------------
(* The protected handles of a batch *)

\* the handles of the templates the last batch built
BuiltHandles ==
    { Deref(last.ps[i]).handle : i \in { j \in DOMAIN last.ps : last.ps[j] # NullPtr } }

\* C15: a batch load that is not asked to save defaults leaves the protected
\* set unchanged; one that is asked leaves it equal to the previous set plus
\* the handle of every template built from a discovered file, and never
\* removes a protected handle.
C15_ProtectedOnlyWhenAsked ==
    (Loaded /\ last.returned) =>
        /\ last.before.undel \subseteq undeletableObjectNames_
        /\ undeletableObjectNames_ =
               IF last.flag THEN last.before.undel \cup BuiltHandles
               ELSE last.before.undel

----------------------------------------------------------------------------
(* What registerObjectFinalize writes to the template *)

\* C16: registerObjectFinalize never changes the template's render asset
\* handle and changes its collision asset handle only in the fallback for
\* an unresolved collision handle; a failed call leaves the template as it
\* was, dirty flag set; the dirty flag is cleared only by a successful call,
\* before the commit, so the template in the primary map is clean.
C16_TemplateWrites ==
    Registered =>
        LET tin == Deref(last.tin)
            t == Deref(last.p)
        IN  /\ t.renderAssetHandle = tin.renderAssetHandle
            /\ (t.collisionAssetHandle # tin.collisionAssetHandle)
                   => /\ last.id # ID_UNDEFINED
                      /\ ~Resolves(tin.collisionAssetHandle)
                      /\ t.collisionAssetHandle = tin.renderAssetHandle
            /\ (last.id = ID_UNDEFINED) => (t = tin /\ t.isDirty)
            /\ (last.id # ID_UNDEFINED)
                   => /\ tin.isDirty /\ ~t.isDirty
                      /\ ~objectLibrary_[last.handle].isDirty

\* a failed registration of a template whose render handle names nothing
\* and whose collision handle names nothing either
C16_Witness ==
    /\ RegisterFailed
    /\ Deref(last.tin).renderAssetHandle = M
    /\ Deref(last.tin).collisionAssetHandle = M
    /\ Deref(last.p).collisionAssetHandle = M
    /\ Deref(last.p).isDirty

----------------------------------------------------------------------------
(* createObject with registration, end to end *)

\* C17: createObject(H, true) for an existing primitive handle H succeeds
\* with render and collision origin Primitive, both asset handles H, and
\* an id that is a key of the primitive-rendered map and not of the
\* file-rendered one; for H no primitive, without canonical configuration
\* file but existing as a file, it registers the default template into the
\* file-rendered map only.
C17_CreateRegistersInOneMap ==
    (Created /\ last.flag) =>
        LET h == last.handle
            t == Deref(last.p)
        IN  /\ h \in prims =>
                 /\ last.p # NullPtr
                 /\ t.renderAssetIsPrimitive /\ t.collisionAssetIsPrimitive
                 /\ t.renderAssetHandle = h /\ t.collisionAssetHandle = h
                 /\ t.ID \in DOMAIN physicsSynthObjTmpltLibByID_
                 /\ t.ID \notin DOMAIN physicsFileObjTmpltLibByID_
            /\ (h \notin prims /\ Canonical(h) \notin DOMAIN fs /\ h \in DOMAIN fs) =>
                 /\ last.p # NullPtr
                 /\ last.msg = "File"
                 /\ t.ID \in DOMAIN physicsFileObjTmpltLibByID_
                 /\ t.ID \notin DOMAIN physicsSynthObjTmpltLibByID_

====
